---- MODULE Spec2Model ----
(***************************************************************************)
(* Ultimate Tic-Tac-Toe states (class UTTT of src/src/ultimate_ttt.py).    *)
(*                                                                         *)
(* A UTTT object owns two numpy arrays, board (9x9) and extra_info (11).   *)
(* The arrays live in a heap of addresses, so that a copy (np.copy) and an *)
(* alias are different things: an object is a record of two addresses and  *)
(* a turn.  take_action and take_random_action_playout are translated      *)
(* statement by statement as functions from a heap and a receiver to a     *)
(* heap and a returned object (or None).                                   *)
(***************************************************************************)
EXTENDS Integers, Sequences, FiniteSets, TLC

VARIABLES heap, self, ret, op, arg, pre, moves

vars == <<heap, self, ret, op, arg, pre, moves>>

(* ---------------------------------------------------------------------- *)
(* Program constants                                                      *)
(* ---------------------------------------------------------------------- *)
M == 9
N == 9
E == 11

\* Python's None where an object is expected: the null object, which owns no
\* array (address 0 is no address of the heap)
None == [board |-> 0, extra_info |-> 0, turn |-> 0]

\* Python's None where compute_outcome's number is expected: a value that is
\* no int8 status and no outcome
NoOutcome == 100

(* ---------------------------------------------------------------------- *)
(* Bounds of the model: the action indices the caller tries.              *)
(* During the first FreePlies moves every index 0..80 is tried; after     *)
(* that the caller tries, at move number n, the n-th move of each of two  *)
(* recorded games (mixing them freely).                                   *)
(* ---------------------------------------------------------------------- *)
FreePlies == 2

\* Only the first MaxRnd values np.random.randint can return are drawn.
MaxRnd == 2

\* The playout loop is followed for at most MaxLoopSteps steps.
MaxLoopSteps == 82

\* X wins sub-boards 3, 4, 5 (main-board win at move 17); play goes on.
GameA == <<32, 15, 27, 9, 28, 12, 29, 16, 30, 10, 31, 13, 33, 11, 34, 3, 35,
           17, 0, 14, 1, 4, 2>>

\* A game that closes all nine sub-boards without a main-board line.
GameB == <<48, 55, 5, 6, 18, 54, 0, 10, 32, 26, 62, 16, 40, 56, 76, 77, 79,
           68, 42, 37, 9, 45, 43, 29, 44, 59, 23, 61, 14, 80, 78, 70, 60, 69,
           71>>

Games == {GameA, GameB}

Actions == 0 .. (M * N - 1)

Offered(n) ==
    {g[n + 1] : g \in {x \in Games : n < Len(x)}}
        \cup (IF n < FreePlies THEN Actions ELSE {})

(* ---------------------------------------------------------------------- *)
(* The heap of numpy arrays                                               *)
(* ---------------------------------------------------------------------- *)
Addrs == 1 .. 6

\* the lowest address not in use
Alloc(h) == CHOOSE a \in Addrs \ DOMAIN h : \A b \in Addrs \ DOMAIN h : a <= b

\* np.copy replaced by a plain assignment: the same array, no copy
np_copy_alias(h, a) == [heap |-> h, addr |-> a]

\* np.copy: a new array with the contents of the array at address a
np_copy(h, a) ==
    LET n == Alloc(h) IN [heap |-> h @@ (n :> h[a]), addr |-> n]

\* np.zeros((M, N)) and np.zeros(E), the latter with the start pointer (1,1)
np_zeros_board(h) ==
    LET n == Alloc(h)
    IN  [heap |-> h @@ (n :> [i \in 0 .. M - 1 |-> [j \in 0 .. N - 1 |-> 0]]),
         addr |-> n]

root_extra_info(h) ==
    LET n == Alloc(h)
        z == [k \in 0 .. E - 1 |-> 0]
    IN  [heap |-> h @@ (n :> [z EXCEPT ![9] = 1, ![10] = 1]), addr |-> n]

\* the arrays kept alive by the objects in keep (the others are garbage)
Refs(objs) == UNION {{o.board, o.extra_info} : o \in objs \ {None}}

Collect(h, objs) == [a \in Refs(objs) |-> h[a]]

\* State.__init__ (module mcts): the turn of a new state
State_init_turn(parent) == IF parent = None THEN 1 ELSE parent.turn

\* UTTT.__init__
UTTT_init(h, parent) ==
    IF parent # None
    THEN LET b == np_copy(h, parent.board)
             e == np_copy(b.heap, parent.extra_info)
         IN  [heap |-> e.heap,
              obj  |-> [board |-> b.addr, extra_info |-> e.addr,
                        turn |-> State_init_turn(parent)]]
    ELSE LET b == np_zeros_board(h)
             e == root_extra_info(b.heap)
         IN  [heap |-> e.heap,
              obj  |-> [board |-> b.addr, extra_info |-> e.addr,
                        turn |-> State_init_turn(parent)]]

\* the values an object holds: its board, its extra_info and its turn
Snapshot(h, o) ==
    [board |-> h[o.board], extra_info |-> h[o.extra_info], turn |-> o.turn]

(* ---------------------------------------------------------------------- *)
(* take_action                                                            *)
(* ---------------------------------------------------------------------- *)
Min(S) == CHOOSE x \in S : \A y \in S : x <= y

\* board[I*3:(I+1)*3, J*3:(J+1)*3]
sub_board(b, I, J) ==
    [r \in 0 .. 2 |-> [c \in 0 .. 2 |-> b[I * 3 + r][J * 3 + c]]]

\* the loop over the rows left out
check_subboard_winner_no_rows(sb) ==
    LET cols == {c \in 0 .. 2 :
                    sb[0][c] # 0 /\ sb[0][c] = sb[1][c] /\ sb[1][c] = sb[2][c]}
    IN  IF cols # {} THEN sb[0][Min(cols)]
        ELSE IF sb[0][0] # 0 /\ sb[0][0] = sb[1][1] /\ sb[1][1] = sb[2][2]
             THEN sb[0][0]
        ELSE IF sb[0][2] # 0 /\ sb[0][2] = sb[1][1] /\ sb[1][1] = sb[2][0]
             THEN sb[0][2]
        ELSE 0

\* rows first, then columns, then the main and the anti diagonal
check_subboard_winner(sb) ==
    LET rows == {r \in 0 .. 2 :
                    sb[r][0] # 0 /\ sb[r][0] = sb[r][1] /\ sb[r][1] = sb[r][2]}
        cols == {c \in 0 .. 2 :
                    sb[0][c] # 0 /\ sb[0][c] = sb[1][c] /\ sb[1][c] = sb[2][c]}
    IN  IF rows # {} THEN sb[Min(rows)][0]
        ELSE IF cols # {} THEN sb[0][Min(cols)]
        ELSE IF sb[0][0] # 0 /\ sb[0][0] = sb[1][1] /\ sb[1][1] = sb[2][2]
             THEN sb[0][0]
        ELSE IF sb[0][2] # 0 /\ sb[0][2] = sb[1][1] /\ sb[1][1] = sb[2][0]
             THEN sb[0][2]
        ELSE 0

\* "if self.board[i, j] != 0: return None"
cell_occupied(st, i, j) == st.board[i][j] # 0

\* the forced sub-board compared by its row only
wrong_subboard_row_only(st, I, J) ==
    LET I_now == st.extra_info[9]
        J_now == st.extra_info[10]
    IN  /\ I_now # -1 /\ J_now # -1
        /\ st.extra_info[I_now * 3 + J_now] \in {0, 2}
        /\ I # I_now

\* "if I_now != -1 and J_now != -1: ... if I != I_now or J != J_now: return None"
wrong_subboard(st, I, J) ==
    LET I_now == st.extra_info[9]
        J_now == st.extra_info[10]
    IN  /\ I_now # -1 /\ J_now # -1
        /\ st.extra_info[I_now * 3 + J_now] \in {0, 2}
        /\ (I # I_now \/ J # J_now)

\* the indices swapped, and the token a constant instead of self.turn
place_token_transposed(b, i, j, turn) == [b EXCEPT ![j][i] = turn]

place_token_always_x(b, i, j, turn) == [b EXCEPT ![i][j] = 1]

\* "child.board[i, j] = self.turn"
place_token(b, i, j, turn) == [b EXCEPT ![i][j] = turn]

\* np.any in the place of np.all
subboard_status_any(sb) ==
    LET won == check_subboard_winner(sb)
    IN  IF won # 0 THEN won
        ELSE IF \E r \in 0 .. 2 : \E c \in 0 .. 2 : sb[r][c] # 0 THEN -2
        ELSE 2

\* the status written to child.extra_info[I * 3 + J]
subboard_status(sb) ==
    LET won == check_subboard_winner(sb)
    IN  IF won # 0 THEN won
        ELSE IF \A r \in 0 .. 2 : \A c \in 0 .. 2 : sb[r][c] # 0 THEN -2
        ELSE 2

\* the pointer's coordinates swapped
next_pointer_swapped(x, i, j) ==
    LET I_next == i % 3
        J_next == j % 3
        next_state == x[I_next * 3 + J_next]
    IN  IF next_state \in {0, 2}
        THEN [x EXCEPT ![9] = J_next, ![10] = I_next]
        ELSE [x EXCEPT ![9] = -1, ![10] = -1]

\* the pointer set without looking at the status of the sub-board it names
next_pointer_unchecked(x, i, j) == [x EXCEPT ![9] = i % 3, ![10] = j % 3]

\* the forced pointer written to child.extra_info[9], child.extra_info[10]
next_pointer(x, i, j) ==
    LET I_next == i % 3
        J_next == j % 3
        next_state == x[I_next * 3 + J_next]
    IN  IF next_state \in {0, 2}
        THEN [x EXCEPT ![9] = I_next, ![10] = J_next]
        ELSE [x EXCEPT ![9] = -1, ![10] = -1]

\* the turn copied instead of negated
flip_turn_forgotten(turn) == turn

\* "child.turn = -self.turn"
flip_turn(turn) == -turn

\* self.take_action(action_index), self the object s of heap h
take_action(h, s, action_index) ==
    LET i == action_index \div 9
        j == action_index % 9
        I == i \div 3
        J == j \div 3
    IN  IF cell_occupied(Snapshot(h, s), i, j) THEN [heap |-> h, ret |-> None]
        ELSE IF wrong_subboard(Snapshot(h, s), I, J)
             THEN [heap |-> h, ret |-> None]
        ELSE LET c == UTTT_init(h, s)
                 child == c.obj
                 h1 == [c.heap EXCEPT
                           ![child.board] = place_token(@, i, j, s.turn)]
                 sb == sub_board(h1[child.board], I, J)
                 h2 == [h1 EXCEPT
                           ![child.extra_info][I * 3 + J] = subboard_status(sb)]
                 h3 == [h2 EXCEPT
                           ![child.extra_info] = next_pointer(@, i, j)]
             IN  [heap |-> h3,
                  ret  |-> [child EXCEPT !.turn = flip_turn(s.turn)]]

(* ---------------------------------------------------------------------- *)
(* compute_outcome                                                        *)
(* ---------------------------------------------------------------------- *)
\* a mistyped last scenario
win_scenarios_typo ==
    << <<0, 1, 2>>, <<3, 4, 5>>, <<6, 7, 8>>, <<0, 3, 6>>,
       <<1, 4, 7>>, <<2, 5, 8>>, <<0, 4, 8>>, <<2, 4, 5>> >>

win_scenarios ==
    << <<0, 1, 2>>, <<3, 4, 5>>, <<6, 7, 8>>, <<0, 3, 6>>,
       <<1, 4, 7>>, <<2, 5, 8>>, <<0, 4, 8>>, <<2, 4, 6>> >>

\* "return 0" of the finished board left out: a closed board is ongoing
compute_outcome_no_draw(st) ==
    LET Ms == st.extra_info
        hits == {n \in 1 .. Len(win_scenarios) :
                    LET a == win_scenarios[n][1]
                        b == win_scenarios[n][2]
                        c == win_scenarios[n][3]
                    IN  Ms[a] = Ms[b] /\ Ms[b] = Ms[c] /\ Ms[a] \in {1, -1}}
    IN  IF hits # {} THEN Ms[win_scenarios[Min(hits)][1]]
        ELSE NoOutcome

compute_outcome(st) ==
    LET Ms == st.extra_info
        hits == {n \in 1 .. Len(win_scenarios) :
                    LET a == win_scenarios[n][1]
                        b == win_scenarios[n][2]
                        c == win_scenarios[n][3]
                    IN  Ms[a] = Ms[b] /\ Ms[b] = Ms[c] /\ Ms[a] \in {1, -1}}
    IN  IF hits # {} THEN Ms[win_scenarios[Min(hits)][1]]
        ELSE IF \A k \in 0 .. 8 : Ms[k] \notin {0, 2} THEN 0
        ELSE NoOutcome

\* the test "M[a] in (1, -1)" left out
compute_outcome_job_numba_jit_any_equal(extra_info) ==
    LET Ms == [k \in 0 .. 8 |-> extra_info[k]]
        hits == {n \in 1 .. Len(win_scenarios) :
                    LET a == win_scenarios[n][1]
                        b == win_scenarios[n][2]
                        c == win_scenarios[n][3]
                    IN  Ms[a] = Ms[b] /\ Ms[b] = Ms[c]}
        finished == ~ \E k \in 0 .. 8 : Ms[k] \in {0, 2}
    IN  IF hits # {} THEN Ms[win_scenarios[Min(hits)][1]]
        ELSE IF finished THEN 0
        ELSE 2

\* @njit compute_outcome_job_numba_jit(extra_info): 2 where compute_outcome
\* returns None
compute_outcome_job_numba_jit(extra_info) ==
    LET Ms == [k \in 0 .. 8 |-> extra_info[k]]
        hits == {n \in 1 .. Len(win_scenarios) :
                    LET a == win_scenarios[n][1]
                        b == win_scenarios[n][2]
                        c == win_scenarios[n][3]
                    IN  Ms[a] = Ms[b] /\ Ms[b] = Ms[c] /\ Ms[a] \in {1, -1}}
        finished == ~ \E k \in 0 .. 8 : Ms[k] \in {0, 2}
    IN  IF hits # {} THEN Ms[win_scenarios[Min(hits)][1]]
        ELSE IF finished THEN 0
        ELSE 2

\* get_max_actions(): "return UTTT.N"
get_max_actions == N

(* ---------------------------------------------------------------------- *)
(* take_random_action_playout                                             *)
(* ---------------------------------------------------------------------- *)
\* the cells of sub-board (I, J) in the order of np.argwhere (row-major)
subboard_cells(I, J) ==
    [n \in 1 .. 9 |-> <<I * 3 + ((n - 1) \div 3), J * 3 + ((n - 1) % 3)>>]

\* the cells of all sub-boards, in the order of the loops over I and J
all_cells ==
    [n \in 1 .. 81 |->
        subboard_cells(((n - 1) \div 9) \div 3, ((n - 1) \div 9) % 3)[((n - 1) % 9) + 1]]

\* the forced sub-board's cells taken without the test "sub_board == 0"
possible_moves_unfiltered(st) ==
    LET I_now == st.extra_info[9]
        J_now == st.extra_info[10]
        free(p) == st.board[p[1]][p[2]] = 0
        active(p) ==
            /\ st.extra_info[(p[1] \div 3) * 3 + (p[2] \div 3)] \in {0, 2}
            /\ free(p)
    IN  IF I_now = -1 /\ J_now = -1
        THEN SelectSeq(all_cells, active)
        ELSE subboard_cells(I_now, J_now)

\* the list possible_moves of (i, j) pairs
possible_moves(st) ==
    LET I_now == st.extra_info[9]
        J_now == st.extra_info[10]
        free(p) == st.board[p[1]][p[2]] = 0
        active(p) ==
            /\ st.extra_info[(p[1] \div 3) * 3 + (p[2] \div 3)] \in {0, 2}
            /\ free(p)
    IN  IF I_now = -1 /\ J_now = -1
        THEN SelectSeq(all_cells, active)
        ELSE SelectSeq(subboard_cells(I_now, J_now), free)

\* self.take_random_action_playout(), rnd the value of np.random.randint
take_random_action_playout(h, s, rnd) ==
    LET c == UTTT_init(h, s)
        child == c.obj
        pm == possible_moves(Snapshot(c.heap, child))
    IN  IF pm = <<>> THEN [heap |-> c.heap, ret |-> None]
        ELSE LET action_index == pm[rnd + 1][1] * 9 + pm[rnd + 1][2]
                 r == take_action(c.heap, child, action_index)
             IN  [heap |-> r.heap, ret |-> child]

randint(n) == IF n = 0 THEN {0} ELSE 0 .. n - 1

(* ---------------------------------------------------------------------- *)
(* The state machine: a caller holding one current state                  *)
(* ---------------------------------------------------------------------- *)
\* the state the caller holds: the child of the last accepted take_action
Cur == IF op = "take_action" /\ ret # None THEN ret ELSE self

EmptyHeap == [a \in {} |-> 0]

Init ==
    LET c == UTTT_init(EmptyHeap, None)
    IN  /\ heap = c.heap
        /\ self = c.obj
        /\ ret = None
        /\ op = "init"
        /\ arg = -1
        /\ pre = Snapshot(c.heap, c.obj)
        /\ moves = 0

TakeAction ==
    \E action_index \in Offered(moves) :
        LET s == Cur
            h0 == Collect(heap, {s})
            r == take_action(h0, s, action_index)
        IN  /\ heap' = r.heap
            /\ self' = s
            /\ ret' = r.ret
            /\ op' = "take_action"
            /\ arg' = action_index
            /\ pre' = Snapshot(h0, s)
            /\ moves' = IF r.ret = None THEN moves ELSE moves + 1

TakeRandomActionPlayout ==
    LET s == Cur
        h0 == Collect(heap, {s})
    IN  \E rnd \in randint(Len(possible_moves(Snapshot(h0, s)))) \cap (0 .. MaxRnd - 1) :
            LET r == take_random_action_playout(h0, s, rnd)
            IN  /\ heap' = Collect(r.heap, {s, r.ret})
                /\ self' = s
                /\ ret' = r.ret
                /\ op' = "playout"
                /\ arg' = rnd
                /\ pre' = Snapshot(h0, s)
                /\ moves' = moves

Next == TakeAction \/ TakeRandomActionPlayout

Spec == Init /\ [][Next]_vars

(* ---------------------------------------------------------------------- *)
(* The outcome evaluators on directly constructed status vectors          *)
(* ---------------------------------------------------------------------- *)
StatusValues == {0, 2, 1, -1, -2}

\* an object built around an extra_info array whose statuses are x (no board
\* array is allocated: the evaluators are given the statuses alone)
InitOutcome ==
    \E x \in [0 .. 8 -> StatusValues] :
        LET e == [k \in 0 .. E - 1 |-> IF k < 9 THEN x[k] ELSE -1]
        IN  /\ heap = (1 :> e)
            /\ self = [board |-> 0, extra_info |-> 1, turn |-> 1]
            /\ ret = None
            /\ op = "init"
            /\ arg = NoOutcome
            /\ pre = [extra_info |-> e]
            /\ moves = 0

ComputeOutcome ==
    /\ op = "init"
    /\ op' = "compute_outcome"
    /\ arg' = compute_outcome([extra_info |-> heap[self.extra_info]])
    /\ UNCHANGED <<heap, self, ret, pre, moves>>

ComputeOutcomeJit ==
    /\ op = "init"
    /\ op' = "compute_outcome_job_numba_jit"
    /\ arg' = compute_outcome_job_numba_jit(heap[self.extra_info])
    /\ UNCHANGED <<heap, self, ret, pre, moves>>

NextOutcome == ComputeOutcome \/ ComputeOutcomeJit

SpecOutcome == InitOutcome /\ [][NextOutcome]_vars

(* ---------------------------------------------------------------------- *)
(* The playout loop: from the root, the current state is replaced by the  *)
(* result of take_random_action_playout until compute_outcome is not None *)
(* or the result is None.  Here self is the current state and moves       *)
(* counts the steps of the loop.                                          *)
(* ---------------------------------------------------------------------- *)
LoopStopped ==
    \/ compute_outcome(Snapshot(heap, self)) # NoOutcome
    \/ op = "playout" /\ ret = None

PlayoutLoopStep ==
    /\ ~LoopStopped
    /\ moves < MaxLoopSteps
    /\ LET s == self
           h0 == Collect(heap, {s})
       IN  \E rnd \in randint(Len(possible_moves(Snapshot(h0, s)))) \cap (0 .. MaxRnd - 1) :
               LET r == take_random_action_playout(h0, s, rnd)
                   cur == IF r.ret = None THEN s ELSE r.ret
               IN  /\ heap' = Collect(r.heap, {cur})
                   /\ self' = cur
                   /\ ret' = r.ret
                   /\ op' = "playout"
                   /\ arg' = rnd
                   /\ pre' = Snapshot(h0, s)
                   /\ moves' = moves + 1

NextPlayout == PlayoutLoopStep

SpecPlayout == Init /\ [][NextPlayout]_vars /\ WF_vars(PlayoutLoopStep)

(* ---------------------------------------------------------------------- *)
(* Properties                                                             *)
(* ---------------------------------------------------------------------- *)
CurSt == Snapshot(heap, Cur)

RetSt == Snapshot(heap, ret)

Accepted == op = "take_action" /\ ret # None

Rejected == op = "take_action" /\ ret = None

Closed == {1, -1, -2}

Open == {0, 2}

Full(b, k) ==
    \A r \in 0 .. 2 : \A c \in 0 .. 2 : sub_board(b, k \div 3, k % 3)[r][c] # 0

Count(b, v) ==
    Cardinality({p \in (0 .. M - 1) \X (0 .. N - 1) : b[p[1]][p[2]] = v})

\* C1: once sub-board k is closed, no accepted take_action changes a cell of
\* sub-board k (stated of every accepted call: the sub-boards closed in the
\* input state have the same cells in the child).
C1_ClosedSubboardImmutable ==
    Accepted =>
        \A k \in 0 .. 8 :
            pre.extra_info[k] \in Closed =>
                sub_board(RetSt.board, k \div 3, k % 3)
                    = sub_board(pre.board, k \div 3, k % 3)

\* C2: in every state reached from the root the forced pointer is (-1,-1), or
\* both coordinates are in 0..2 and the sub-board they name is open (0 or 2).
C2_ForcedPointerConsistent ==
    LET x == CurSt.extra_info
    IN  \/ x[9] = -1 /\ x[10] = -1
        \/ /\ x[9] \in 0 .. 2
           /\ x[10] \in 0 .. 2
           /\ x[x[9] * 3 + x[10]] \in Open

\* an accepted move whose cell names a closed sub-board: the pointer is freed
C2_Witness ==
    /\ Accepted
    /\ RetSt.extra_info[((arg \div 9) % 3) * 3 + ((arg % 9) % 3)] \in Closed
    /\ RetSt.extra_info[9] = -1
    /\ RetSt.extra_info[10] = -1

\* C3: once compute_outcome is +1, -1 or 0 it stays that value in every
\* derived state (stated of every accepted call on a terminal input state).
C3_OutcomeMonotone ==
    (Accepted /\ compute_outcome(pre) \in {1, -1, 0}) =>
        compute_outcome(RetSt) = compute_outcome(pre)

\* C4: on a state whose compute_outcome is +1, -1 or 0,
\* take_random_action_playout finds no candidate and returns None.
C4_TerminalNoContinuation ==
    (op = "playout" /\ compute_outcome(pre) \in {1, -1, 0}) =>
        (possible_moves(pre) = <<>> /\ ret = None)

\* C5: take_action(idx) returns None exactly when cell idx is non-empty, or
\* the forced pointer is not (-1,-1) and the sub-board of idx is not the one
\* the pointer names; otherwise it returns a child.
C5_RejectionRule ==
    LET s == Cur
        h0 == Collect(heap, {s})
        st == Snapshot(h0, s)
        ptr == <<st.extra_info[9], st.extra_info[10]>>
    IN  \A idx \in Actions :
            LET i == idx \div 9
                j == idx % 9
            IN  (take_action(h0, s, idx).ret = None)
                    <=> \/ st.board[i][j] # 0
                        \/ ptr # <<-1, -1>> /\ <<i \div 3, j \div 3>> # ptr

\* a call rejected although its cell is empty: it left the forced sub-board
C5_Witness ==
    /\ Rejected
    /\ pre.board[arg \div 9][arg % 9] = 0
    /\ <<pre.extra_info[9], pre.extra_info[10]>>
           # <<(arg \div 9) \div 3, (arg % 9) \div 3>>

\* C6: take_action, accepted or rejected, leaves the board, the statuses, the
\* pointer and the turn of its input state as they were, and the child owns
\* arrays of its own (none of them is an array of the parent).
C6_NoSideEffects ==
    op = "take_action" =>
        /\ Snapshot(heap, self) = pre
        /\ ret # None =>
               /\ {ret.board, ret.extra_info} \cap {self.board, self.extra_info} = {}
               /\ ret.board # ret.extra_info

\* an accepted move that closed a sub-board: the child differs from the parent
\* in a cell, a status and the pointer
C6_Witness ==
    /\ Accepted
    /\ RetSt.board # pre.board
    /\ \E k \in 0 .. 8 : pre.extra_info[k] = 2 /\ RetSt.extra_info[k] \in Closed
    /\ RetSt.extra_info[9] # pre.extra_info[9]

\* C7: after k accepted take_action calls from the root the turn is +1 if k
\* is even and -1 if k is odd; a rejected call leaves the turn as it was.
C7_TurnAlternation ==
    /\ Cur.turn = (IF moves % 2 = 0 THEN 1 ELSE -1)
    /\ Rejected => Cur.turn = pre.turn

\* a rejected call after three accepted ones
C7_Witness == Rejected /\ moves = 3 /\ Cur.turn = -1

\* C8: the number of +1 cells minus the number of -1 cells is 0 or 1.
C8_CellCountBalance == Count(CurSt.board, 1) - Count(CurSt.board, -1) \in {0, 1}

C8_Witness ==
    Accepted /\ Count(CurSt.board, 1) = 9 /\ Count(CurSt.board, -1) = 8

\* C9 (as claimed): a closed sub-board (+1, -1 or -2) has all 9 cells non-empty.
C9_ClosedImpliesFull ==
    \A k \in 0 .. 8 : CurSt.extra_info[k] \in Closed => Full(CurSt.board, k)

\* C9 (amended): a drawn sub-board (status -2) has all 9 cells non-empty.
C9_DrawnImpliesFull ==
    \A k \in 0 .. 8 : CurSt.extra_info[k] = -2 => Full(CurSt.board, k)

\* the move that filled a sub-board without a line
C9_Witness ==
    /\ Accepted
    /\ \E k \in 0 .. 8 : pre.extra_info[k] = 2 /\ RetSt.extra_info[k] = -2

\* C10: an accepted take_action(idx) changes cell idx from 0 to the parent's
\* turn and no other cell of the board.
C10_OneCellChanges ==
    Accepted =>
        /\ pre.board[arg \div 9][arg % 9] = 0
        /\ RetSt.board[arg \div 9][arg % 9] = pre.turn
        /\ \A i \in 0 .. M - 1 : \A j \in 0 .. N - 1 :
               (i * 9 + j # arg) => RetSt.board[i][j] = pre.board[i][j]

\* an accepted move of the second player on a board that holds tokens
C10_Witness ==
    /\ Accepted
    /\ pre.turn = -1
    /\ RetSt.board[arg \div 9][arg % 9] = -1
    /\ Count(pre.board, 0) < 70

\* the 8 lines of a 3x3 grid as sets of (row, column) pairs
GridLines ==
    {{<<r, c>> : c \in 0 .. 2} : r \in 0 .. 2}
        \cup {{<<r, c>> : r \in 0 .. 2} : c \in 0 .. 2}
        \cup {{<<d, d>> : d \in 0 .. 2}, {<<d, 2 - d>> : d \in 0 .. 2}}

\* sub-board k of board b holds a three-in-a-row of token v
HasLine(b, k, v) ==
    \E l \in GridLines :
        \A p \in l : sub_board(b, k \div 3, k % 3)[p[1]][p[2]] = v

\* the sub-board an action index lies in, and the one its cell names
SubOf(idx) == ((idx \div 9) \div 3) * 3 + ((idx % 9) \div 3)

TargetOf(idx) == ((idx \div 9) % 3) * 3 + ((idx % 9) % 3)

\* C11: after an accepted take_action into sub-board k the child's status[k]
\* is the token of a three-in-a-row of k if there is one, else -2 if k is
\* full, else 2; the other 8 statuses are the parent's.
C11_SubboardReevaluated ==
    Accepted =>
        LET k == SubOf(arg)
            b == RetSt.board
            st == RetSt.extra_info
        IN  /\ (HasLine(b, k, 1) \/ HasLine(b, k, -1)) =>
                   (st[k] \in {1, -1} /\ HasLine(b, k, st[k]))
            /\ (~HasLine(b, k, 1) /\ ~HasLine(b, k, -1)) =>
                   st[k] = (IF Full(b, k) THEN -2 ELSE 2)
            /\ \A n \in 0 .. 8 : n # k => st[n] = pre.extra_info[n]

\* PlayerA's third token in a sub-board completes a row: the status is +1
C11_Witness ==
    /\ Accepted
    /\ pre.turn = 1
    /\ pre.extra_info[SubOf(arg)] = 2
    /\ RetSt.extra_info[SubOf(arg)] = 1
    /\ \E r \in 0 .. 2 : \A c \in 0 .. 2 :
           sub_board(RetSt.board, SubOf(arg) \div 3, SubOf(arg) % 3)[r][c] = 1

\* C12: after an accepted take_action at (row, col) the child's pointer is
\* (row % 3, col % 3) if the child's status of that sub-board is 0 or 2, and
\* (-1,-1) otherwise; move 40 from the root gives (1,1) and status[4] = 2.
C12_NextForcedSubboard ==
    Accepted =>
        LET i == arg \div 9
            j == arg % 9
            st == RetSt.extra_info
        IN  /\ <<st[9], st[10]>> =
                   (IF st[TargetOf(arg)] \in Open THEN <<i % 3, j % 3>>
                    ELSE <<-1, -1>>)
            /\ (moves = 1 /\ arg = 40) =>
                   (st[9] = 1 /\ st[10] = 1 /\ st[4] = 2)

\* a move that closes its own sub-board and names it: the pointer is freed
\* although the parent's status of that sub-board was open
C12_Witness ==
    /\ Accepted
    /\ TargetOf(arg) = SubOf(arg)
    /\ pre.extra_info[SubOf(arg)] \in Open
    /\ RetSt.extra_info[SubOf(arg)] \in Closed
    /\ RetSt.extra_info[9] = -1

\* the 8 lines over the statuses 0..8 in the order rows, columns, main
\* diagonal, anti-diagonal
ScanOrder ==
    [n \in 1 .. 8 |->
        IF n <= 3 THEN {3 * (n - 1) + c : c \in 0 .. 2}
        ELSE IF n <= 6 THEN {3 * r + (n - 4) : r \in 0 .. 2}
        ELSE IF n = 7 THEN {0, 4, 8}
        ELSE {2, 4, 6}]

\* the lines whose three statuses are all v
WonLines(x, v) == {n \in 1 .. 8 : \A k \in ScanOrder[n] : x[k] = v}

\* C13: compute_outcome returns v in {+1,-1} if some line of statuses is all v
\* (the first such line in scan order decides), otherwise 0 iff every status
\* is closed, otherwise None.
C13_OutcomeOverStatuses ==
    op = "compute_outcome" =>
        LET x == heap[self.extra_info]
            won == WonLines(x, 1) \cup WonLines(x, -1)
        IN  IF won # {}
            THEN arg = (IF Min(won) \in WonLines(x, 1) THEN 1 ELSE -1)
            ELSE /\ (arg = 0) <=> (\A k \in 0 .. 8 : x[k] \in Closed)
                 /\ arg # 0 => arg = NoOutcome

\* the directly constructed vector [+1,+1,+1,2,0,0,0,0,0] evaluates to +1
C13_Witness ==
    /\ op = "compute_outcome"
    /\ [k \in 0 .. 8 |-> heap[self.extra_info][k]]
           = [k \in 0 .. 8 |-> IF k < 3 THEN 1 ELSE IF k = 3 THEN 2 ELSE 0]
    /\ arg = 1

\* C14: if take_random_action_playout finds no candidate cell and returns
\* None, compute_outcome of that state is +1, -1 or 0.
C14_EmptyImpliesTerminal ==
    /\ possible_moves(CurSt) = <<>> => compute_outcome(CurSt) \in {1, -1, 0}
    /\ (op = "playout" /\ ret = None) => compute_outcome(pre) \in {1, -1, 0}

\* a playout on a board whose nine sub-boards are closed returned None
C14_Witness ==
    /\ op = "playout"
    /\ ret = None
    /\ possible_moves(pre) = <<>>
    /\ \A k \in 0 .. 8 : pre.extra_info[k] \in Closed

\* the action indices take_action accepts on the current state
AcceptedIndices ==
    {idx \in Actions : take_action(Collect(heap, {Cur}), Cur, idx).ret # None}

\* C15: no state has more accepted action indices than get_max_actions(), and
\* every accepted action index is smaller than get_max_actions().
C15_MaxActions ==
    /\ Cardinality(AcceptedIndices) <= get_max_actions
    /\ \A idx \in AcceptedIndices : idx < get_max_actions

\* C16: the state take_random_action_playout returns is its input state with
\* one legal move applied as by take_action: for some candidate cell, the
\* returned board, statuses, pointer and turn are those of take_action's child.
C16_PlayoutAdvances ==
    (op = "playout" /\ ret # None) =>
        \E n \in 1 .. Len(possible_moves(pre)) :
            LET p == possible_moves(pre)[n]
                r == take_action(Collect(heap, {self}), self, p[1] * 9 + p[2])
            IN  r.ret # None /\ Snapshot(r.heap, r.ret) = RetSt

\* C18: every cell of possible_moves is an index take_action accepts.
C18_CandidatesLegal ==
    LET pm == possible_moves(CurSt)
        h0 == Collect(heap, {Cur})
    IN  \A n \in 1 .. Len(pm) :
            take_action(h0, Cur, pm[n][1] * 9 + pm[n][2]).ret # None

\* a playout in the free-move state, on a board with a closed sub-board that
\* still has an empty cell
C18_Witness ==
    /\ op = "playout"
    /\ ret # None
    /\ pre.extra_info[9] = -1
    /\ pre.extra_info[10] = -1
    /\ \E k \in 0 .. 8 : pre.extra_info[k] \in Closed /\ ~Full(pre.board, k)

\* C19: status[k] = 0 iff sub-board k is empty; 2 iff it has a token, an empty
\* cell and no three-in-a-row; -2 iff it is full with no three-in-a-row; and
\* v in {+1,-1} iff it holds a three-in-a-row of v.
C19_StatusMatchesBoard ==
    \A k \in 0 .. 8 :
        LET b == CurSt.board
            st == CurSt.extra_info[k]
            sb == sub_board(b, k \div 3, k % 3)
            tokens == {p \in (0 .. 2) \X (0 .. 2) : sb[p[1]][p[2]] # 0}
            line == HasLine(b, k, 1) \/ HasLine(b, k, -1)
        IN  /\ (st = 0) <=> (tokens = {})
            /\ (st = 2) <=> (tokens # {} /\ ~Full(b, k) /\ ~line)
            /\ (st = -2) <=> (Full(b, k) /\ ~line)
            /\ \A v \in {1, -1} : (st = v) <=> HasLine(b, k, v)

\* C20: compute_outcome_job_numba_jit returns compute_outcome's value when
\* that is +1, -1 or 0, and 2 exactly when compute_outcome returns None.
C20_EvaluatorsAgree ==
    op = "compute_outcome_job_numba_jit" =>
        LET co == compute_outcome([extra_info |-> heap[self.extra_info]])
        IN  /\ co \in {1, -1, 0} => arg = co
            /\ (arg = 2) <=> (co = NoOutcome)

\* a vector with an open sub-board and a line of three drawn sub-boards
C20_Witness ==
    /\ op = "compute_outcome_job_numba_jit"
    /\ arg = 2
    /\ \A k \in 0 .. 2 : heap[self.extra_info][k] = -2
    /\ compute_outcome([extra_info |-> heap[self.extra_info]]) = NoOutcome

\* C17: the playout loop from the root stops after at most 81 steps,
\* whatever the random choices: once 81 steps are done it has stopped.
C17_PlayoutTerminates == moves >= 81 => LoopStopped

====
